---- MODULE Spec2Model ----
(***************************************************************************)
(* Beta CDF and its inverse (package stat, betainv.go).                    *)
(*                                                                         *)
(* Numbers are exact rationals <<n, d>> in lowest terms with d > 0.  The   *)
(* float64 operations of the source are modelled by the exact operation on *)
(* rationals; shape parameters that reach the special functions are        *)
(* integers, for which the Lentz recurrence of betaContinuedFraction       *)
(* terminates exactly (its even coefficient vanishes at m = beta).         *)
(*                                                                         *)
(* What the rationals leave out:                                           *)
(*  - rounding: a float64 result may differ from the exact one in its last *)
(*    bits; the tolerances of the source (eps, acc, tol, 1e-11) are kept   *)
(*    at their values and compared exactly;                                *)
(*  - LnGamma and Beta_PDF are defined in other files of the package; they *)
(*    are the log-gamma function and the Beta density;                     *)
(*  - a call is drawn only if its arithmetic is rational: integer shapes,  *)
(*    a first guess that is a rational root, and, for shapes <= 0, only    *)
(*    the arguments 0 and 1 (elsewhere float64 yields Inf and NaN);        *)
(*  - BetaInv_CDF_For with p > 0.5 runs cdf_beta_Pinv with the non-integer *)
(*    first shape 1 - p, where the CDF is irrational: its value is then    *)
(*    any grid point of (0,1), see Beta_CDF_At_Values.                     *)
(***************************************************************************)
EXTENDS Integers, Sequences, FiniteSets

\* ------------------------------------------------------------ bounds
\* largest denominator of the grid of arguments x and probabilities p
MaxDen == 5
\* largest shape parameter drawn for a call
MaxShape == 2
\* largest power den^(alpha+beta) of the first guess's denominator for which a
\* call of the solver is drawn (the powers x^alpha * (1-x)^beta stay integers
\* of the model)
MaxDenPower == 1000000

\* ------------------------------------------------------------ program constants
\* eps = 2.2204460492503131e-16 = 1 / (epsInvA * epsInvB) = 2^-52
epsInvA == 67108864
epsInvB == 67108864
\* acc = 1e-16 = 1 / (accInvA * accInvB)
accInvA == 100000000
accInvB == 100000000
maxIter == 1000000000
\* tol = 1.4901161193847656e-08 = 1 / tolInv = 2^-26
tolInv == 67108864
\* the loop bound 1e-11 = 1 / (relInvA * relInvB)
relInvA == 100000
relInvB == 1000000
\* xtol = ptol = 0.01 = 1 / bisectTolInv
bisectTolInv == 100
step0Init == 999999
sentinel == 999
maxPasses == 64

\* ------------------------------------------------------------ rationals
IAbs(n) == IF n < 0 THEN -n ELSE n

RECURSIVE GCD(_, _)
GCD(a, b) == IF b = 0 THEN a ELSE GCD(b, a % b)

Norm(n, d) ==
    LET g == GCD(IAbs(n), IAbs(d))
        s == IF d < 0 THEN -1 ELSE 1
    IN  <<s * (n \div g), s * (d \div g)>>

Q(n) == <<n, 1>>
Zero == <<0, 1>>
One == <<1, 1>>
Half == <<1, 2>>
Tenth == <<1, 10>>

IsInt(q) == q[2] = 1

RNeg(q) == <<-q[1], q[2]>>
RAbs(q) == <<IAbs(q[1]), q[2]>>

RAdd(p, q) ==
    LET g == GCD(p[2], q[2])
    IN  Norm(p[1] * (q[2] \div g) + q[1] * (p[2] \div g), (p[2] \div g) * q[2])

RSub(p, q) == RAdd(p, RNeg(q))

RMul(p, q) ==
    LET g1 == GCD(IAbs(p[1]), q[2])
        g2 == GCD(IAbs(q[1]), p[2])
    IN  IF p[1] = 0 \/ q[1] = 0 THEN Zero
        ELSE <<(p[1] \div g1) * (q[1] \div g2), (p[2] \div g2) * (q[2] \div g1)>>

RInv(q) == IF q[1] < 0 THEN <<-q[2], -q[1]>> ELSE <<q[2], q[1]>>

RDiv(p, q) == RMul(p, RInv(q))

RSign(q) == IF q[1] > 0 THEN 1 ELSE IF q[1] < 0 THEN -1 ELSE 0

\* the sign of a/b - c/d for a, c >= 0 and b, d > 0, by the Euclidean
\* expansion of both (no product is formed)
RECURSIVE CmpPos(_, _, _, _)
CmpPos(a, b, c, d) ==
    LET qa == a \div b
        qc == c \div d
        ra == a % b
        rc == c % d
    IN  IF qa # qc THEN (IF qa < qc THEN -1 ELSE 1)
        ELSE IF ra = 0 /\ rc = 0 THEN 0
        ELSE IF ra = 0 THEN -1
        ELSE IF rc = 0 THEN 1
        ELSE - CmpPos(b, ra, d, rc)

\* the sign of p - q
RCmp(p, q) ==
    IF RSign(p) # RSign(q) THEN (IF RSign(p) < RSign(q) THEN -1 ELSE 1)
    ELSE IF RSign(p) = 0 THEN 0
    ELSE RSign(p) * CmpPos(IAbs(p[1]), p[2], IAbs(q[1]), q[2])

RLt(p, q) == RCmp(p, q) < 0
RLe(p, q) == RCmp(p, q) <= 0
RGt(p, q) == RLt(q, p)

RMax(p, q) == IF RLt(p, q) THEN q ELSE p

RECURSIVE RPow(_, _)
RPow(q, k) == IF k = 0 THEN One ELSE RMul(q, RPow(q, k - 1))

\* |q| < 1 / (A * B), decided without forming A * B
AbsLtInv(q, A, B) ==
    \/ q[1] = 0
    \/ LET c == (q[2] + IAbs(q[1]) - 1) \div IAbs(q[1])      \* ceil(1 / |q|)
       IN  ~ (((c - 1) \div A) < B)

\* |p| > |q| / (A * B), decided without forming A * B
AbsGtScaled(p, q, A, B) ==
    /\ p[1] # 0
    /\ \/ q[1] = 0
       \/ RLe(RAbs(q), RAbs(p))
       \/ LET r == RDiv(RAbs(q), RAbs(p))
          IN  ((r[1] \div r[2]) \div A) < B

\* ------------------------------------------------------------ betaContinuedFraction
\* the value that stands for a panic of the evaluation (no rational has d = 0)
Panicked == <<0, 0>>

\* if math.Abs(d) < eps { d = eps }.  The clamped value 2^-52 lies outside
\* TLC's integer range: evaluating it raises an overflow, so a run that
\* completes has never taken the clamp.
Clamp(d) == IF AbsLtInv(d, epsInvA, epsInvB) THEN <<1, epsInvA * epsInvB>> ELSE d

RECURSIVE cfLoop(_, _, _, _, _, _, _)
cfLoop(alpha, beta, x, i, c, d, res) ==
    IF i > maxIter THEN Panicked
    ELSE
    LET qab == RAdd(alpha, beta)
        qap == RAdd(alpha, One)
        qam == RSub(alpha, One)
        m   == Q(i)
        m2  == Q(2 * i)
        aa1 == RDiv(RMul(RMul(m, RSub(beta, m)), x),
                    RMul(RAdd(qam, m2), RAdd(alpha, m2)))
        d1  == Clamp(RAdd(One, RMul(aa1, d)))
        c1  == Clamp(RAdd(One, RDiv(aa1, c)))
        d2  == RInv(d1)
        res1 == RMul(res, RMul(d2, c1))
        aa2 == RNeg(RDiv(RMul(RMul(RAdd(alpha, m), RAdd(qab, m)), x),
                         RMul(RAdd(alpha, m2), RAdd(qap, m2))))
        d3  == Clamp(RAdd(One, RMul(aa2, d2)))
        c2  == Clamp(RAdd(One, RDiv(aa2, c1)))
        d4  == RInv(d3)
        del == RMul(d4, c2)
        res2 == RMul(res1, del)
    IN  IF AbsLtInv(RSub(del, One), accInvA, accInvB) THEN res2
        ELSE cfLoop(alpha, beta, x, i + 1, c2, d4, res2)

betaContinuedFraction(alpha, beta, x) ==
    LET qab == RAdd(alpha, beta)
        qap == RAdd(alpha, One)
        d0  == RInv(Clamp(RSub(One, RDiv(RMul(qab, x), qap))))
    IN  cfLoop(alpha, beta, x, 1, One, d0, d0)

\* ------------------------------------------------------------ log-gamma and the density
RECURSIVE Factorial(_)
Factorial(k) == IF k <= 0 THEN 1 ELSE k * Factorial(k - 1)

\* exp(LnGamma(a+b) - LnGamma(a) - LnGamma(b)) for positive integers a, b
GammaRatio(alpha, beta) ==
    Norm(Factorial(alpha[1] + beta[1] - 1),
         Factorial(alpha[1] - 1) * Factorial(beta[1] - 1))

\* the Beta density at x in (0,1), positive integer shapes
Beta_PDF(alpha, beta, x) ==
    RMul(GammaRatio(alpha, beta),
         RMul(RPow(x, alpha[1] - 1), RPow(RSub(One, x), beta[1] - 1)))

\* ------------------------------------------------------------ Beta_CDF
\* y = exp(LnGamma(a+b) - LnGamma(a) - LnGamma(b) + a*log(x) + b*log(1-x))
BetaY(alpha, beta, x) ==
    RMul(GammaRatio(alpha, beta),
         RMul(RPow(x, alpha[1]), RPow(RSub(One, x), beta[1])))

\* (alpha + 1) / (alpha + beta + 2)
SwitchPoint(alpha, beta) ==
    RDiv(RAdd(alpha, One), RAdd(RAdd(alpha, beta), Q(2)))

\* the case of the switch that x selects
Beta_CDF_Branch_Le(alpha, beta, x) ==
    CASE x = Zero -> "zero"
      [] x = One -> "one"
      [] x # Zero /\ x # One /\ RLe(x, SwitchPoint(alpha, beta)) -> "direct"
      [] OTHER -> "mirror"

Beta_CDF_Branch(alpha, beta, x) ==
    CASE x = Zero -> "zero"
      [] x = One -> "one"
      [] x # Zero /\ x # One /\ RLt(x, SwitchPoint(alpha, beta)) -> "direct"
      [] OTHER -> "mirror"

\* the arguments of the calls of betaContinuedFraction the evaluation makes
Beta_CDF_cfCalls(alpha, beta, x) ==
    LET br == Beta_CDF_Branch(alpha, beta, x)
    IN  IF br = "direct" THEN {<<alpha, beta, x>>}
        ELSE IF br = "mirror" THEN {<<beta, alpha, RSub(One, x)>>}
        ELSE {}

OrPanic(cf, v) == IF cf = Panicked THEN Panicked ELSE v

Beta_CDF_NoComplement(alpha, beta, x) ==
    LET br == Beta_CDF_Branch(alpha, beta, x)
        y  == BetaY(alpha, beta, x)
    IN  CASE br = "zero" -> Zero
          [] br = "one" -> One
          [] br = "direct" ->
                LET cf == betaContinuedFraction(alpha, beta, x)
                IN  OrPanic(cf, RDiv(RMul(y, cf), alpha))
          [] OTHER ->
                LET cf == betaContinuedFraction(beta, alpha, RSub(One, x))
                IN  OrPanic(cf, RDiv(RMul(y, cf), beta))

Beta_CDF(alpha, beta, x) ==
    LET br == Beta_CDF_Branch(alpha, beta, x)
        y  == BetaY(alpha, beta, x)
    IN  CASE br = "zero" -> Zero
          [] br = "one" -> One
          [] br = "direct" ->
                LET cf == betaContinuedFraction(alpha, beta, x)
                IN  OrPanic(cf, RDiv(RMul(y, cf), alpha))
          [] OTHER ->
                LET cf == betaContinuedFraction(beta, alpha, RSub(One, x))
                IN  OrPanic(cf, RSub(One, RDiv(RMul(y, cf), beta)))

Beta_CDF_At(alpha, beta, x) == Beta_CDF(alpha, beta, x)

\* x == 0 -> 0, x == 1 -> 1, otherwise the density
Beta_PDF_At(alpha, beta, x) ==
    CASE x = Zero -> Zero
      [] x = One -> One
      [] OTHER -> Beta_PDF(alpha, beta, x)

\* ------------------------------------------------------------ exact roots
RECURSIVE IPow(_, _)
IPow(r, k) == IF k = 0 THEN 1 ELSE r * IPow(r, k - 1)

\* r^k >= n, decided without forming a power beyond n
RECURSIVE PowGeq(_, _, _)
PowGeq(r, k, n) ==
    IF n <= 1 THEN n <= 0 \/ k = 0 \/ r >= 1
    ELSE IF k = 0 \/ r = 0 THEN FALSE
    ELSE PowGeq(r, k - 1, (n + r - 1) \div r)

\* the least r in lo..hi with r^k >= n
RECURSIVE IRootIn(_, _, _, _)
IRootIn(n, k, lo, hi) ==
    IF lo >= hi THEN lo
    ELSE LET mid == (lo + hi) \div 2
         IN  IF PowGeq(mid, k, n) THEN IRootIn(n, k, lo, mid)
             ELSE IRootIn(n, k, mid + 1, hi)

IRootFrom(n, k, r) == IRootIn(n, k, r, n)

HasRoot(q, k) ==
    /\ q[1] >= 0
    /\ IPow(IRootFrom(q[1], k, 0), k) = q[1]
    /\ IPow(IRootFrom(q[2], k, 0), k) = q[2]

\* the k-th root of q; defined only where it is rational
RRoot(q, k) ==
    CHOOSE r \in {<<IRootFrom(q[1], k, 0), IRootFrom(q[2], k, 0)>>} :
        IPow(r[1], k) = q[1] /\ IPow(r[2], k) = q[2]

\* ------------------------------------------------------------ bisect
RECURSIVE bisectLoop(_, _, _, _, _, _, _, _)
bisectLoop(x, x0, x1, p, a, b, xtol, ptol) ==
    IF RGt(RAbs(RSub(x1, x0)), xtol)
    THEN LET px == Beta_PDF(a, b, x)
         IN  IF RLt(RAbs(RSub(px, p)), ptol) THEN x
             ELSE LET n0 == IF RLt(px, p) THEN x ELSE x0
                      n1 == IF RGt(px, p) THEN x ELSE x1
                  IN  bisectLoop(RMul(Half, RAdd(n0, n1)), n0, n1, p, a, b, xtol, ptol)
    ELSE x

\* var x0, x1 float64 start at zero
bisect(x, p, a, b, xtol, ptol) == bisectLoop(x, Zero, Zero, p, a, b, xtol, ptol)

\* ------------------------------------------------------------ cdf_beta_Pinv: first guess
Mean(alpha, beta) == RDiv(alpha, RAdd(alpha, beta))

\* exp(log(alpha) + lg_a + lg_b - lg_ab + log(p)), whose log is alpha * lx
SmallXArg(alpha, beta, p) == RDiv(RMul(alpha, p), GammaRatio(alpha, beta))

\* (1-x)^(-(beta-1)), whose alpha-th root is the second approximation's factor
SecondFactor(beta, x) == RInv(RPow(RSub(One, x), beta[1] - 1))

FirstGuess(alpha, beta, p) ==
    LET mean == Mean(alpha, beta)
        x0 == IF RLt(p, Tenth)
              THEN IF RLe(SmallXArg(alpha, beta, p), One)
                   THEN LET x1 == RRoot(SmallXArg(alpha, beta, p), alpha[1])
                        IN  RMul(x1, RRoot(SecondFactor(beta, x1), alpha[1]))
                   ELSE mean
              ELSE mean
    IN  IF RLt(p, Tenth) /\ RGt(x0, mean) THEN mean ELSE x0

\* the inputs of the small-x branch whose first guess is rational
GuessExact(alpha, beta, p) ==
    LET a == SmallXArg(alpha, beta, p)
    IN  /\ RLt(a, One)
        /\ HasRoot(a, alpha[1])
        /\ HasRoot(SecondFactor(beta, RRoot(a, alpha[1])), alpha[1])

\* ------------------------------------------------------------ BetaInv_CDF_For: the switch
BetaInv_Case_ShortcutFirst(alpha, beta, p) ==
    IF RLt(p, Zero) \/ RGt(p, One) THEN "panic_p"
    ELSE IF p = Zero THEN "zero"
    ELSE IF p = One THEN "one"
    ELSE IF RLt(alpha, Zero) THEN "panic_alpha"
    ELSE IF RLt(beta, Zero) THEN "panic_beta"
    ELSE IF RGt(p, Half) THEN "upper"
    ELSE "default"

BetaInv_Case(alpha, beta, p) ==
    IF RLt(p, Zero) \/ RGt(p, One) THEN "panic_p"
    ELSE IF RLt(alpha, Zero) THEN "panic_alpha"
    ELSE IF RLt(beta, Zero) THEN "panic_beta"
    ELSE IF p = Zero THEN "zero"
    ELSE IF p = One THEN "one"
    ELSE IF RGt(p, Half) THEN "upper"
    ELSE "default"

\* the arguments cdf_beta_Pinv(alpha, beta, p) is called with, in its order
BetaInv_SolverArgs(alpha, beta, p) ==
    IF BetaInv_Case(alpha, beta, p) = "upper"
    THEN <<RSub(One, p), beta, alpha>>
    ELSE <<alpha, beta, p>>

\* ------------------------------------------------------------ state
VARIABLES
    pc,        \* "idle", "refine" (in the loop of cdf_beta_Pinv), "ret", "done"
    fn,        \* the public function that was called
    alpha,     \* its arguments
    beta,
    arg,       \* x of Beta_CDF_At / Beta_PDF_At, p of BetaInv_CDF_For
    invoked,   \* cdf_beta_Pinv was called
    sa,        \* the parameters alpha, beta, p of cdf_beta_Pinv
    sb,
    sp,
    guess,     \* x before bisect
    x,         \* x of cdf_beta_Pinv
    step0,
    n,
    dP,        \* dP of the last pass
    result,    \* what the public function returned, or that it panicked
    branch,    \* the case the last evaluation of Beta_CDF selected
    cfCalls    \* the arguments of the calls of betaContinuedFraction so far

vars == <<pc, fn, alpha, beta, arg, invoked, sa, sb, sp, guess, x, step0, n, dP,
          result, branch, cfCalls>>

NoResult == [kind |-> "none", val |-> Zero]
Value(v) == [kind |-> "value", val |-> v]
Panic == [kind |-> "panic", val |-> Zero]
Outcome(v) == IF v = Panicked THEN Panic ELSE Value(v)

\* ------------------------------------------------------------ inputs
\* every k / d in [0,1] with d <= MaxDen
Grid == {Norm(k, d) : k \in 0..MaxDen, d \in 1..MaxDen} \ {q \in {Norm(k, d) : k \in 0..MaxDen, d \in 1..MaxDen} : RGt(q, One)}
OpenGrid == Grid \ {Zero, One}
\* probabilities below 0.1
TinyGrid == {Norm(1, 10 + d) : d \in 1..MaxDen}
\* probabilities outside [0,1]
OutsideGrid == {Norm(-1, MaxDen), Norm(MaxDen + 1, MaxDen)}
\* positive values
PosGrid == {Norm(k, d) : k \in 1..(2 * MaxDen), d \in 1..MaxDen}

Shapes == {Q(k) : k \in (-1)..MaxShape}
PosShapes == {Q(k) : k \in 1..MaxShape}

\* the probabilities Beta_CDF_At yields on the grid
RoundTripPs(a, b) ==
    IF a \in PosShapes /\ b \in PosShapes
    THEN {Beta_CDF_At(a, b, t) : t \in OpenGrid}
    ELSE {}

\* the calls of BetaInv_CDF_For whose arithmetic stays rational: a panic, a
\* shortcut, or positive integer shapes with a rational first guess
InvExact(a, b, p) ==
    \/ BetaInv_Case(a, b, p) \in {"panic_p", "panic_alpha", "panic_beta", "zero", "one"}
    \/ /\ a \in PosShapes /\ b \in PosShapes
       /\ RLt(Zero, p) /\ RLt(p, One)
       /\ \/ RGt(p, Half)
          \/ ~ RLt(p, Tenth)
          \/ /\ GuessExact(a, b, p)
             /\ ~ PowGeq(FirstGuess(a, b, p)[2], a[1] + b[1], MaxDenPower + 1)

\* the values Beta_CDF_At can return: the value itself for integer shapes;
\* for a non-integer shape x^alpha is irrational, and only that the value
\* lies in (0,1) is kept
Beta_CDF_At_Values(a, b, t) ==
    IF IsInt(a) /\ IsInt(b) THEN {Beta_CDF_At(a, b, t)} ELSE OpenGrid

Beta_PDF_At_Values(a, b, t) ==
    IF IsInt(a) /\ IsInt(b) THEN {Beta_PDF_At(a, b, t)} ELSE PosGrid

Init ==
    /\ pc = "idle"
    /\ fn = "none"
    /\ alpha = Zero /\ beta = Zero /\ arg = Zero
    /\ invoked = FALSE
    /\ sa = Zero /\ sb = Zero /\ sp = Zero
    /\ guess = Zero /\ x = Zero /\ step0 = Zero /\ n = 0 /\ dP = Zero
    /\ result = NoResult
    /\ branch = "none"
    /\ cfCalls = {}

\* ------------------------------------------------------------ Beta_CDF_At, Beta_PDF_At
Call_Beta_CDF_At(a, b, t) ==
    /\ pc = "idle"
    /\ (a \in PosShapes /\ b \in PosShapes) \/ t \in {Zero, One}
    /\ fn' = "Beta_CDF_At" /\ alpha' = a /\ beta' = b /\ arg' = t
    /\ result' = Outcome(Beta_CDF_At(a, b, t))
    /\ branch' = Beta_CDF_Branch(a, b, t)
    /\ cfCalls' = Beta_CDF_cfCalls(a, b, t)
    /\ pc' = "done"
    /\ UNCHANGED <<invoked, sa, sb, sp, guess, x, step0, n, dP>>

Call_Beta_PDF_At(a, b, t) ==
    /\ pc = "idle"
    /\ (a \in PosShapes /\ b \in PosShapes) \/ t \in {Zero, One}
    /\ fn' = "Beta_PDF_At" /\ alpha' = a /\ beta' = b /\ arg' = t
    /\ result' = Value(Beta_PDF_At(a, b, t))
    /\ pc' = "done"
    /\ UNCHANGED <<invoked, sa, sb, sp, guess, x, step0, n, dP, branch, cfCalls>>

\* ------------------------------------------------------------ BetaInv_CDF_For
Call_BetaInv_CDF_For(a, b, p) ==
    /\ pc = "idle"
    /\ InvExact(a, b, p)
    /\ fn' = "BetaInv_CDF_For" /\ alpha' = a /\ beta' = b /\ arg' = p
    /\ LET c == BetaInv_Case(a, b, p)
           s == BetaInv_SolverArgs(a, b, p)
       IN  IF c \in {"panic_p", "panic_alpha", "panic_beta"}
           THEN /\ result' = Panic
                /\ pc' = "done"
                /\ UNCHANGED <<invoked, sa, sb, sp, guess, x, step0, n>>
           ELSE IF c \in {"zero", "one"}
           THEN /\ result' = Value(IF c = "zero" THEN Zero ELSE One)
                /\ pc' = "done"
                /\ UNCHANGED <<invoked, sa, sb, sp, guess, x, step0, n>>
           ELSE /\ invoked' = TRUE
                /\ sa' = s[1] /\ sb' = s[2] /\ sp' = s[3]
                /\ guess' = FirstGuess(s[1], s[2], s[3])
                /\ x' = bisect(guess', s[3], s[1], s[2],
                               <<1, bisectTolInv>>, <<1, bisectTolInv>>)
                /\ step0' = Q(step0Init)
                /\ n' = 0
                /\ result' = NoResult
                /\ pc' = "refine"
    /\ UNCHANGED <<dP, branch, cfCalls>>

\* one evaluation of the loop condition and, if it holds, one pass of the loop
Refine ==
    /\ pc = "refine"
    /\ IF ~ AbsGtScaled(step0, x, relInvA, relInvB)
       THEN /\ pc' = "ret"
            /\ UNCHANGED <<x, step0, n, dP, result, branch, cfCalls>>
       ELSE \E v \in Beta_CDF_At_Values(sa, sb, x), phi \in Beta_PDF_At_Values(sa, sb, x) :
            /\ branch' = Beta_CDF_Branch(sa, sb, x)
            /\ cfCalls' = cfCalls \cup Beta_CDF_cfCalls(sa, sb, x)
            /\ IF v = Panicked
               THEN /\ result' = Panic
                    /\ pc' = "done"
                    /\ UNCHANGED <<x, step0, n, dP>>
               ELSE LET d == RSub(sp, v)
                        lambda == RDiv(d, RMax(RMul(Q(2), RAbs(RDiv(d, x))), phi))
                        step1 == RNeg(RDiv(RMul(RSub(RDiv(RSub(sa, One), x),
                                                     RDiv(RSub(sb, One), RSub(One, x))),
                                                RMul(lambda, lambda)),
                                           Q(2)))
                        step == IF RLt(RAbs(step1), RAbs(lambda))
                                THEN RAdd(lambda, step1)
                                ELSE RMul(lambda, RMul(Q(2), RAbs(RDiv(lambda, step1))))
                        moved == IF RGt(RAdd(x, step), Zero) /\ RLt(RAdd(x, step), One)
                                 THEN RAdd(x, step)
                                 ELSE RRoot(RMul(x, Mean(sa, sb)), 2)
                        failed == AbsGtScaled(d, sp, tolInv, 1)
                    IN  /\ dP' = d
                        /\ result' = result
                        /\ IF d = Zero \/ n > maxPasses
                           THEN /\ pc' = "ret"
                                /\ UNCHANGED <<x, step0, n>>
                           ELSE /\ n' = n + 1
                                /\ step0' = lambda
                                /\ x' = IF failed THEN Q(sentinel) ELSE moved
                                /\ pc' = IF failed THEN "ret" ELSE "refine"
    /\ UNCHANGED <<fn, alpha, beta, arg, invoked, sa, sb, sp, guess>>

\* return x, and BetaInv_CDF_For's use of it
Return ==
    /\ pc = "ret"
    /\ result' = Value(IF BetaInv_Case(alpha, beta, arg) = "upper"
                       THEN RSub(One, x) ELSE x)
    /\ pc' = "done"
    /\ UNCHANGED <<fn, alpha, beta, arg, invoked, sa, sb, sp, guess, x, step0, n, dP,
                   branch, cfCalls>>

Next ==
    \/ \E a \in Shapes, b \in Shapes, t \in Grid : Call_Beta_CDF_At(a, b, t)
    \/ \E a \in Shapes, b \in Shapes, t \in Grid : Call_Beta_PDF_At(a, b, t)
    \/ \E a \in Shapes, b \in Shapes :
          \E p \in Grid \cup TinyGrid \cup OutsideGrid \cup RoundTripPs(a, b) :
             Call_BetaInv_CDF_For(a, b, p)
    \/ Refine
    \/ Return

Spec == Init /\ [][Next]_vars

\* ------------------------------------------------------------ properties
Done == pc = "done"
InvDone == fn = "BetaInv_CDF_For" /\ Done
CdfDone == fn = "Beta_CDF_At" /\ Done
PosCall == alpha \in PosShapes /\ beta \in PosShapes
InUnit(q) == RLe(Zero, q) /\ RLe(q, One)
Interior(q) == RLt(Zero, q) /\ RLt(q, One)
ValidInv == RLe(Zero, alpha) /\ RLe(Zero, beta) /\ InUnit(arg)

\* C1: a call of BetaInv_CDF_For with alpha >= 0, beta >= 0, 0 <= p <= 1 that
\* returns a number returns one in [0,1].
C1_ResultInUnitInterval ==
    (InvDone /\ ValidInv /\ result.kind = "value") => InUnit(result.val)

\* C2: for 0.5 < p < 1 the solver is called with (beta, alpha, 1 - p) and the
\* call returns 1 minus its result; for 0 < p <= 0.5 it is called with
\* (alpha, beta, p) and its result is returned unchanged.
C2_SymmetryReduction ==
    (fn = "BetaInv_CDF_For" /\ ValidInv /\ Interior(arg)) =>
        IF RGt(arg, Half)
        THEN /\ <<sa, sb, sp>> = <<beta, alpha, RSub(One, arg)>>
             /\ Done => result = Value(RSub(One, x))
        ELSE /\ <<sa, sb, sp>> = <<alpha, beta, arg>>
             /\ Done => result = Value(x)

\* C3: BetaInv_CDF_For(1, 1, p) returns p for every p in [0,1].
C3_UniformIdentity ==
    (InvDone /\ alpha = One /\ beta = One /\ InUnit(arg)) => result = Value(arg)

\* C4: for alpha, beta > 0 and x in (0,1), BetaInv_CDF_For(alpha, beta,
\* Beta_CDF_At(alpha, beta, x)) equals x within 1e-6 relative.
C4_RoundTrip ==
    (InvDone /\ PosCall) =>
        \A t \in OpenGrid :
            Beta_CDF_At(alpha, beta, t) = arg =>
                /\ result.kind = "value"
                /\ ~ AbsGtScaled(RSub(result.val, t), t, 1000000, 1)

\* C5: BetaInv_CDF_For called with p < 0, p > 1, alpha < 0 or beta < 0 ends in
\* a domain error with no numeric result, before the solver is invoked and
\* before the shortcuts p = 0 -> 0 and p = 1 -> 1 are taken.
C5_DomainErrorFirst ==
    (fn = "BetaInv_CDF_For" /\ (RLt(arg, Zero) \/ RGt(arg, One)
                                \/ RLt(alpha, Zero) \/ RLt(beta, Zero))) =>
        /\ Done
        /\ result = Panic
        /\ ~ invoked

\* C5 witness: alpha = -1 with p = 0 has ended in the domain error.
C5_Witness ==
    InvDone /\ alpha = Q(-1) /\ arg = Zero /\ result = Panic

\* C6: a call of Beta_CDF_At, Beta_PDF_At or BetaInv_CDF_For with alpha <= 0
\* or beta <= 0 ends in a domain error and returns no number.
C6_DegenerateShapesRejected ==
    (Done /\ (RLe(alpha, Zero) \/ RLe(beta, Zero))) => result = Panic

Complement(br) ==
    CASE br = "zero" -> "one"
      [] br = "one" -> "zero"
      [] br = "direct" -> "mirror"
      [] br = "mirror" -> "direct"
      [] OTHER -> "none"

C8_FailureOnlyAfterBudget ==
    invoked =>
        /\ n <= maxPasses
        /\ (pc # "refine" /\ AbsGtScaled(dP, sp, tolInv, 1)) => n >= maxPasses
        /\ x = Q(sentinel) => n >= maxPasses

\* C9: bisect returns a point with |CDF(result) - p| < ptol or moves the
\* guess; a guess with |CDF(guess) - p| >= ptol is not returned unchanged.
C9_BisectMovesGuess ==
    (pc = "refine" /\ n = 0 /\ IsInt(sa) /\ IsInt(sb)) =>
        \/ RLt(RAbs(RSub(Beta_CDF_At(sa, sb, x), sp)), <<1, bisectTolInv>>)
        \/ x # guess

\* the calls of betaContinuedFraction that Beta_CDF_At(alpha, beta, x) makes
CfCallsOfCall ==
    CdfDone =>
        CASE branch = "direct" -> cfCalls = {<<alpha, beta, arg>>}
          [] branch = "mirror" -> cfCalls = {<<beta, alpha, RSub(One, arg)>>}
          [] OTHER -> arg \in {Zero, One} /\ cfCalls = {}

\* C10 (as claimed): every call betaContinuedFraction(a, b, t) has t in (0,1)
\* and t < (a+1)/(a+b+2) strictly, in the direct and in the mirrored branch,
\* the switch point included; none is made for x = 0 and x = 1.
C10_CfCallsStrictlyConvergent ==
    /\ CfCallsOfCall
    /\ (CdfDone /\ arg \in {Zero, One}) => cfCalls = {}
    /\ \A c \in cfCalls : Interior(c[3]) /\ RLt(c[3], SwitchPoint(c[1], c[2]))

\* C10 (amended): every call betaContinuedFraction(a, b, t) has t in (0,1)
\* and t <= (a+1)/(a+b+2); it is strict in the direct branch, and in the
\* mirrored branch unless x is the switch point (alpha+1)/(alpha+beta+2),
\* where t = (a+1)/(a+b+2); none is made for x = 0 and x = 1.
C10_CfCallsConvergentOrSwitchPoint ==
    /\ CfCallsOfCall
    /\ (CdfDone /\ arg \in {Zero, One}) => cfCalls = {}
    /\ \A c \in cfCalls : Interior(c[3]) /\ RLe(c[3], SwitchPoint(c[1], c[2]))
    /\ (CdfDone /\ branch = "direct") => RLt(arg, SwitchPoint(alpha, beta))
    /\ (CdfDone /\ branch = "mirror") =>
          (RSub(One, arg) = SwitchPoint(beta, alpha) <=> arg = SwitchPoint(alpha, beta))

\* C10 witness: the mirrored branch has called the continued fraction at
\* the switch point.
C10_Witness ==
    /\ CdfDone /\ PosCall /\ arg = SwitchPoint(alpha, beta)
    /\ branch = "mirror"
    /\ cfCalls = {<<beta, alpha, SwitchPoint(beta, alpha)>>}

====
